---- MODULE Spec2Model ----
(***************************************************************************)
(* The routing engine of spangle (src/spangle/_internal/router.py): the    *)
(* static route table, the segment trie with static, dynamic and rest      *)
(* children, the four trailing-slash strategies, and the Router facade.    *)
(*                                                                         *)
(* Encoding of Python values.                                              *)
(*  - A str that is used as a path is held by its split on "/":            *)
(*    [lead |-> it starts with "/", segs |-> the parts after that leading  *)
(*    "/" (all the parts when there is none)].  "/" is lead with one empty *)
(*    part, "/foo/" is lead with the parts foo and the empty part, "foo"   *)
(*    is the part foo without lead.  The encoding is one-to-one, so the    *)
(*    string operations of the code (startswith, endswith, [:-1], split,   *)
(*    join) are computed on it exactly.                                    *)
(*  - A part is either literal text (a sequence of characters) or one      *)
(*    placeholder "{name}", "{name:conv}" or "{name:*conv}" that fills the *)
(*    whole part.  Used inside a request path a placeholder part is just   *)
(*    its own spelling: non-empty text without "/" that int() rejects.     *)
(*  - None is NoHandler / NoMatch; a dict is a function.                   *)
(***************************************************************************)
EXTENDS Integers, Sequences, FiniteSets, TLC

VARIABLES
    default_strategy,   \* Router._default_strategy
    routes,             \* Router._static_router.routes : path -> handler
    root_node,          \* Router._dynamic_router.root_node : the trie
    log,                \* history: the append calls made so far, with what each returned
    lookup,             \* history: the get call made since the last append, and its result
    api                 \* an Api object: its blueprint.Router, _reverse_views and get cache

vars == <<default_strategy, routes, root_node, log, lookup, api>>

----------------------------------------------------------------------------
(* Bounds of the model *)

\* the number of append calls in one behaviour
MaxAppends == 2

\* the number of get calls in a row with one path that are told apart
MaxLookups == 2

----------------------------------------------------------------------------
(* Strings *)

NoConv == [given |-> FALSE, star |-> FALSE, id |-> ""]
Conv(id) == [given |-> TRUE, star |-> FALSE, id |-> id]
StarConv(id) == [given |-> TRUE, star |-> TRUE, id |-> id]

\* a literal part, and the placeholder part "{name}" / "{name:conv}" / "{name:*conv}"
Lit(text) == [ph |-> FALSE, text |-> text, name |-> "", conv |-> NoConv]
Ph(name, conv) == [ph |-> TRUE, text |-> <<>>, name |-> name, conv |-> conv]
EmptySeg == Lit(<<>>)

Str(lead, segs) == [lead |-> lead, segs |-> segs]

Last(s) == s[Len(s)]
Front(s) == SubSeq(s, 1, Len(s) - 1)

\* path.startswith("/")
StartsWithSlash(path) == path.lead

\* path.endswith("/")
EndsWithSlash(path) ==
    /\ Last(path.segs) = EmptySeg
    /\ path.lead \/ Len(path.segs) >= 2

\* path.split("/")
Split(path) == IF path.lead THEN <<EmptySeg>> \o path.segs ELSE path.segs

\* _, *next_path_parts = path.split("/")
NextPathParts(path) == Tail(Split(path))

\* "/" + path
PrependSlash(path) ==
    IF path.lead THEN Str(TRUE, <<EmptySeg>> \o path.segs) ELSE Str(TRUE, path.segs)

\* path + "/"
AppendSlash(path) ==
    IF ~path.lead /\ path.segs = <<EmptySeg>> THEN Str(TRUE, <<EmptySeg>>)
    ELSE Str(path.lead, path.segs \o <<EmptySeg>>)

\* path[:-1] alone, which is "" for "/"
StripLastNoRoot(path) ==
    IF Len(path.segs) = 1 THEN Str(FALSE, <<EmptySeg>>)
    ELSE Str(path.lead, Front(path.segs))

\* path[:-1] or "/", for a path that ends with "/"
StripLastOrRoot(path) ==
    IF Len(path.segs) = 1 THEN Str(TRUE, <<EmptySeg>>)
    ELSE Str(path.lead, Front(path.segs))

\* utils.normalize_path: 'string' -> '/string/'
normalize_path(path) ==
    LET p1 == IF ~StartsWithSlash(path) THEN PrependSlash(path) ELSE path
    IN  IF ~EndsWithSlash(p1) THEN AppendSlash(p1) ELSE p1

\* re.match(r".*{([^/:]+):\*[^/:]+}.*", head)
IsRestPart(seg) == seg.ph /\ seg.conv.given /\ seg.conv.star

\* re.match(r".*{([^/:]+)(:[^/:]+)?}.*", head)
IsDynamicPart(seg) == seg.ph

\* re.match(r".*{([^/:]+)(:[^/:]+)?}.*", path): [^/:] keeps the braces within one part
HasPlaceholder(path) == \E i \in 1..Len(path.segs) : IsDynamicPart(path.segs[i])

\* re.sub(r"{([^:]+)}", r"{\1:default}", head) on one part
FixPart(seg) == IF seg.ph /\ ~seg.conv.given THEN Ph(seg.name, Conv("default")) ELSE seg

\* the same substitution on a joined path
FixParts(segs) == [i \in 1..Len(segs) |-> FixPart(segs[i])]

----------------------------------------------------------------------------
(* Values and converters *)

\* a captured value: an int, a float or a str (a str is held as its split on "/")
IntValue(n) == [t |-> "int", n |-> n, s |-> <<>>]
FloatValue(n) == [t |-> "float", n |-> n, s |-> <<>>]
StrValue(segs) == [t |-> "str", n |-> 0, s |-> segs]

DigitValue == [c \in {"0", "1", "2", "3", "4", "5", "6", "7", "8", "9"} |->
    CASE c = "0" -> 0 [] c = "1" -> 1 [] c = "2" -> 2 [] c = "3" -> 3 [] c = "4" -> 4
      [] c = "5" -> 5 [] c = "6" -> 6 [] c = "7" -> 7 [] c = "8" -> 8 [] c = "9" -> 9]

IsDigit(c) == c \in DOMAIN DigitValue

RECURSIVE StripLeft(_)
StripLeft(text) ==
    IF text # <<>> /\ Head(text) = " " THEN StripLeft(Tail(text)) ELSE text

RECURSIVE StripRight(_)
StripRight(text) ==
    IF text # <<>> /\ Last(text) = " " THEN StripRight(Front(text)) ELSE text

\* the digits of an int() argument: digits, single underscores only between digits
DigitsOk(d) ==
    /\ d # <<>>
    /\ \A i \in 1..Len(d) :
        \/ IsDigit(d[i])
        \/ d[i] = "_" /\ i > 1 /\ i < Len(d) /\ IsDigit(d[i - 1]) /\ IsDigit(d[i + 1])

RECURSIVE DigitsValue(_)
DigitsValue(d) ==
    IF d = <<>> THEN 0
    ELSE IF Last(d) = "_" THEN DigitsValue(Front(d))
    ELSE 10 * DigitsValue(Front(d)) + DigitValue[Last(d)]

\* int(text): [ok |-> no ValueError, n |-> the value].  Surrounding blanks are
\* stripped, one sign is allowed, base 10.
PyInt(text) ==
    LET OfDigits(d, negative) ==
            IF DigitsOk(d)
            THEN [ok |-> TRUE, n |-> IF negative THEN 0 - DigitsValue(d) ELSE DigitsValue(d)]
            ELSE [ok |-> FALSE, n |-> 0]
        OfStripped(s) ==
            IF s # <<>> /\ Head(s) \in {"+", "-"}
            THEN OfDigits(Tail(s), Head(s) = "-")
            ELSE OfDigits(s, FALSE)
    IN  OfStripped(StripRight(StripLeft(text)))

\* str.upper on the characters the model uses
UpperChar(c) ==
    CASE c = "a" -> "A" [] c = "b" -> "B" [] c = "c" -> "C" [] c = "f" -> "F"
      [] c = "o" -> "O" [] c = "x" -> "X" [] c = "y" -> "Y" [] c = "z" -> "Z"
      [] OTHER -> c

\* the case folding of re.IGNORECASE on the characters the model uses
LowerChar(c) ==
    CASE c = "A" -> "a" [] c = "B" -> "b" [] c = "C" -> "c" [] c = "F" -> "f"
      [] c = "O" -> "o" [] c = "X" -> "x" [] c = "Y" -> "y" [] c = "Z" -> "z"
      [] OTHER -> c

\* the converter functions: f(x) gives [ok |-> it did not raise, val |-> its result].
\* x is the captured str, given by its parts.
ApplyConverter(fn, x) ==
    LET Number(parsed) ==
            IF ~parsed.ok THEN [ok |-> FALSE, val |-> StrValue(x)]
            ELSE IF fn = "int" THEN [ok |-> TRUE, val |-> IntValue(parsed.n)]
            ELSE [ok |-> TRUE, val |-> FloatValue(parsed.n)]
    IN
    CASE fn \in {"int", "float"} ->
            \* int(): a str with "/" or braces in it is no integer; float(): the
            \* same, on texts without ".", exponent, inf or nan spellings
            Number(IF Len(x) = 1 /\ ~x[1].ph THEN PyInt(x[1].text)
                   ELSE [ok |-> FALSE, n |-> 0])
      [] fn = "upper" ->
            [ok |-> TRUE,
             val |-> StrValue([i \in 1..Len(x) |->
                        IF x[i].ph THEN x[i]
                        ELSE Lit([j \in 1..Len(x[i].text) |-> UpperChar(x[i].text[j])])])]
      [] OTHER ->
            \* str and _default_converter: the str itself
            [ok |-> TRUE, val |-> StrValue(x)]

\* the two regex fragments a converter can carry
SegmentPattern == "[^/]+"
LazyPattern == ".+?"

\* _wrapper(f): f with the attribute pattern = getattr(f, "pattern", r"[^/]+")
_wrapper(fn) == [fn |-> fn, pattern |-> SegmentPattern]

ConvKey(id) == [star |-> FALSE, id |-> id]
StarKey(id) == [star |-> TRUE, id |-> id]

\* _builtin_converters; "*rest_string" is _default_converter unwrapped, so parse
\* gives it its own default pattern r".+?"
_builtin_converters ==
    (ConvKey("int") :> _wrapper("int")) @@
    (ConvKey("float") :> _wrapper("float")) @@
    (ConvKey("str") :> _wrapper("str")) @@
    (ConvKey("default") :> _wrapper("default")) @@
    (StarKey("rest_string") :> [fn |-> "default", pattern |-> LazyPattern])

\* the converters argument of a route: name -> function
NoConverters == [k \in {} |-> "default"]
UpperConverters == (ConvKey("upper") :> "upper")

\* a merge that drops the converters of the route
MergedConvertersBuiltinOnly(converters) == _builtin_converters

\* {**_builtin_converters, **{key: _wrapper(converters[key])}}
MergedConverters(converters) ==
    [k \in DOMAIN _builtin_converters \cup DOMAIN converters |->
        IF k \in DOMAIN converters THEN _wrapper(converters[k]) ELSE _builtin_converters[k]]

----------------------------------------------------------------------------
(* parse.compile and Parser.parse *)

KeyOf(conv) == [star |-> conv.star, id |-> conv.id]

\* compile raises ValueError("format spec ... not recognised") for a type that is
\* neither in extra_types nor one of parse's own
CompileRaises(template, converters) ==
    \E i \in 1..Len(template) :
        template[i].ph /\ template[i].conv.given
        /\ KeyOf(template[i].conv) \notin DOMAIN converters

\* compile(template, converters): one token per part.  A literal part is matched
\* as it is; a field is a named group around its converter's pattern ("{name}"
\* without a type is r".+?" and is not converted).
Compile(template, converters) ==
    [i \in 1..Len(template) |->
        IF ~template[i].ph
        THEN [field |-> FALSE, lit |-> template[i], name |-> "",
              pattern |-> "", fn |-> ""]
        ELSE IF ~template[i].conv.given
        THEN [field |-> TRUE, lit |-> EmptySeg, name |-> template[i].name,
              pattern |-> LazyPattern, fn |-> "default"]
        ELSE [field |-> TRUE, lit |-> EmptySeg, name |-> template[i].name,
              pattern |-> converters[KeyOf(template[i].conv)].pattern,
              fn |-> converters[KeyOf(template[i].conv)].fn]]

\* the text of a part as the regex sees it, folded for re.IGNORECASE
Folded(seg) ==
    IF seg.ph THEN seg ELSE Lit([j \in 1..Len(seg.text) |-> LowerChar(seg.text[j])])

\* the joined parts are a non-empty str
NonEmptyStr(segs) == Len(segs) >= 2 \/ (Len(segs) = 1 /\ segs[1] # EmptySeg)

NoCaptures == [ok |-> FALSE, caps |-> <<>>]

\* The anchored regex match of the tokens (joined by "/") on the candidate (its
\* parts).  r"[^/]+" takes one whole non-empty part; r".+?" takes the fewest
\* parts that let the rest match (lazy, backtracking).
RECURSIVE RegexMatch(_, _)
RECURSIVE LazyMatch(_, _, _)
RegexMatch(tokens, cand) ==
    IF tokens = <<>> THEN [ok |-> cand = <<>>, caps |-> <<>>]
    ELSE IF cand = <<>> THEN NoCaptures
    ELSE LET tok == Head(tokens) IN
         IF ~tok.field
         THEN IF Folded(tok.lit) = Folded(Head(cand))
              THEN RegexMatch(Tail(tokens), Tail(cand))
              ELSE NoCaptures
         ELSE IF tok.pattern = SegmentPattern
         THEN IF Head(cand) # EmptySeg
              THEN LET Captured(r) ==
                           IF r.ok
                           THEN [ok |-> TRUE,
                                 caps |-> <<[name |-> tok.name, fn |-> tok.fn,
                                             raw |-> <<Head(cand)>>]>> \o r.caps]
                           ELSE NoCaptures
                   IN  Captured(RegexMatch(Tail(tokens), Tail(cand)))
              ELSE NoCaptures
         ELSE LazyMatch(tokens, cand, 1)

LazyMatch(tokens, cand, k) ==
    IF k > Len(cand) THEN NoCaptures
    ELSE LET tok == Head(tokens)
             Captured(r) ==
                 IF r.ok
                 THEN [ok |-> TRUE,
                       caps |-> <<[name |-> tok.name, fn |-> tok.fn,
                                   raw |-> SubSeq(cand, 1, k)]>> \o r.caps]
                 ELSE LazyMatch(tokens, cand, k + 1)
         IN  Captured(IF NonEmptyStr(SubSeq(cand, 1, k))
                      THEN RegexMatch(Tail(tokens), SubSeq(cand, k + 1, Len(cand)))
                      ELSE NoCaptures)

NoParams == [k \in {} |-> StrValue(<<>>)]

\* {**params, **new_params}
MergeParams(params, new_params) ==
    [k \in DOMAIN params \cup DOMAIN new_params |->
        IF k \in DOMAIN new_params THEN new_params[k] ELSE params[k]]

\* the named dict of the captures, the later capture of a name winning
RECURSIVE NamedOf(_)
NamedOf(caps) ==
    IF caps = <<>> THEN NoParams
    ELSE MergeParams((Head(caps).name :> ApplyConverter(Head(caps).fn, Head(caps).raw).val),
                     NamedOf(Tail(caps)))

\* parser.parse(candidate): "none" is its None, "raise" an exception out of a
\* converter, "ok" a Result whose .named is given
ParserParse(parser, cand) ==
    LET Converted(caps) ==
            IF \E i \in 1..Len(caps) : ~ApplyConverter(caps[i].fn, caps[i].raw).ok
            THEN [st |-> "raise", named |-> NoParams]
            ELSE [st |-> "ok", named |-> NamedOf(caps)]
        Result(m) ==
            IF ~m.ok THEN [st |-> "none", named |-> NoParams] ELSE Converted(m.caps)
    IN  Result(RegexMatch(parser, cand))

----------------------------------------------------------------------------
(* Handlers and match results *)

\* a handler class: a view of the application, or a Redirect class made by the
\* n-th append call (each call defines a class of its own)
NoHandler == [kind |-> "none", name |-> "", n |-> 0]
View(name) == [kind |-> "view", name |-> name, n |-> 0]
Redirect(rule, n) == [kind |-> "redirect", name |-> rule, n |-> n]

\* issubclass(handler, RedirectBase)
RedirectBase(handler) == handler.kind = "redirect"

NoMatch == [found |-> FALSE, handler |-> NoHandler, params |-> NoParams]
_Matched(handler, params) == [found |-> TRUE, handler |-> handler, params |-> params]

\* a or b, for two Optional[_Matched]
OrElse(a, b) == IF a.found THEN a ELSE b

----------------------------------------------------------------------------
(* _StaticRouter *)

NoRoutes == [p \in {} |-> NoHandler]

\* an assignment that leaves the entry of a path that has one
PutKeepingFirst(table, path, handler) ==
    IF path \in DOMAIN table THEN table ELSE (path :> handler) @@ table

\* routes[path] = handler
Put(table, path, handler) == (path :> handler) @@ table

\* routes.setdefault(path, handler)
SetDefault(table, path, handler) ==
    IF path \in DOMAIN table THEN table ELSE (path :> handler) @@ table

\* a strict that registers the path without its trailing slash
StaticAppendStrictStripped(table, path, handler) ==
    LET p == StripLastOrRoot(normalize_path(path))
    IN  [routes |-> Put(table, p, handler), ret |-> p]

\* _StaticRouter._append_strict
StaticAppendStrict(table, path, handler) ==
    LET p == IF StartsWithSlash(path) THEN path ELSE PrependSlash(path)
    IN  [routes |-> Put(table, p, handler), ret |-> p]

\* a clone that registers the given form only
StaticAppendCloneNoAlias(table, path, handler) ==
    LET slash_path == normalize_path(path)
        no_trailing_slash == StripLastOrRoot(slash_path)
        original_path == IF EndsWithSlash(path) THEN slash_path ELSE no_trailing_slash
    IN  [routes |-> Put(table, original_path, handler), ret |-> original_path]

\* _StaticRouter._append_clone
StaticAppendClone(table, path, handler) ==
    LET slash_path == normalize_path(path)
        no_trailing_slash == StripLastOrRoot(slash_path)
        original_path == IF EndsWithSlash(path) THEN slash_path ELSE no_trailing_slash
        modified_path == IF EndsWithSlash(path) THEN no_trailing_slash ELSE slash_path
    IN  [routes |-> SetDefault(Put(table, original_path, handler), modified_path, handler),
         ret |-> original_path]

\* a no_slash with the two forms exchanged
StaticAppendNoSlashSwapped(table, path, handler, n) ==
    LET slash_path == normalize_path(path)
        no_trailing_slash == StripLastOrRoot(slash_path)
    IN  [routes |-> SetDefault(Put(table, slash_path, handler),
                               no_trailing_slash, Redirect("no_slash", n)),
         ret |-> no_trailing_slash]

\* _StaticRouter._append_no_slash; n numbers the Redirect class of this call
StaticAppendNoSlash(table, path, handler, n) ==
    LET slash_path == normalize_path(path)
        no_trailing_slash == StripLastOrRoot(slash_path)
    IN  [routes |-> SetDefault(Put(table, no_trailing_slash, handler),
                               slash_path, Redirect("no_slash", n)),
         ret |-> no_trailing_slash]

\* a slash whose redirect replaces what the other form holds
StaticAppendSlashNoRedirect(table, path, handler, n) ==
    LET slash_path == normalize_path(path)
    IN  [routes |-> Put(table, slash_path, handler), ret |-> slash_path]

\* a slash whose Redirect class is the one of no_slash, cutting the last character
StaticAppendSlashCutting(table, path, handler, n) ==
    LET slash_path == normalize_path(path)
        no_trailing_slash == StripLastOrRoot(slash_path)
    IN  [routes |-> SetDefault(Put(table, slash_path, handler),
                               no_trailing_slash, Redirect("no_slash", n)),
         ret |-> slash_path]

\* _StaticRouter._append_slash
StaticAppendSlash(table, path, handler, n) ==
    LET slash_path == normalize_path(path)
        no_trailing_slash == StripLastOrRoot(slash_path)
    IN  [routes |-> SetDefault(Put(table, slash_path, handler),
                               no_trailing_slash, Redirect("slash", n)),
         ret |-> slash_path]

\* an append that takes slash for no_slash and no_slash for slash
StaticAppendExchanged(table, path, handler, strategy, n) ==
    IF strategy = "strict" THEN StaticAppendStrict(table, path, handler)
    ELSE IF strategy = "clone" THEN StaticAppendClone(table, path, handler)
    ELSE IF strategy = "slash" THEN StaticAppendNoSlash(table, path, handler, n)
    ELSE StaticAppendSlash(table, path, handler, n)

\* _StaticRouter.append
StaticAppend(table, path, handler, strategy, n) ==
    IF strategy = "strict" THEN StaticAppendStrict(table, path, handler)
    ELSE IF strategy = "clone" THEN StaticAppendClone(table, path, handler)
    ELSE IF strategy = "slash" THEN StaticAppendSlash(table, path, handler, n)
    ELSE StaticAppendNoSlash(table, path, handler, n)

\* _StaticRouter.get
StaticGet(table, path) ==
    IF path \in DOMAIN table THEN _Matched(table[path], NoParams) ELSE NoMatch

----------------------------------------------------------------------------
(* _Node *)

NoChildren == [k \in {} |-> NoHandler]

\* _Node(): _dynamic_nodes and _rest_nodes are dicts read in insertion order,
\* held as sequences of [key, parser, node]
_Node == [_static_nodes |-> NoChildren, _dynamic_nodes |-> <<>>,
          _rest_nodes |-> <<>>, _handler |-> NoHandler]

\* the place of key in an ordered dict, 0 when it is absent
IndexOf(entries, key) ==
    IF \E i \in 1..Len(entries) : entries[i].key = key
    THEN CHOOSE i \in 1..Len(entries) : entries[i].key = key
    ELSE 0

RECURSIVE NodeGet(_, _, _)
RECURSIVE DynamicLoop(_, _, _, _, _)
RECURSIVE DynamicLoopFirstMatch(_, _, _, _, _)
RECURSIVE DynamicLoopStopOnRaise(_, _, _, _, _)
RECURSIVE DynamicLoopLastMatch(_, _, _, _, _)
RECURSIVE DynamicLoopSharedParams(_, _, _, _, _)
RECURSIVE RestLoop(_, _, _, _)

\* _Node._get_from_static_node
GetFromStaticNode(node, path_head, rest_paths, params) ==
    IF path_head \in DOMAIN node._static_nodes
    THEN NodeGet(node._static_nodes[path_head], rest_paths, params)
    ELSE NoMatch

\* a loop without the try: the exception of a converter ends the search
DynamicLoopStopOnRaise(entries, i, path_head, rest_paths, params) ==
    IF i > Len(entries) THEN NoMatch
    ELSE LET Found(parsed) ==
                 IF parsed.st = "raise" THEN NoMatch
                 ELSE IF parsed.st = "ok"
                 THEN OrElse(NodeGet(entries[i].node, rest_paths,
                                     MergeParams(params, parsed.named)),
                             DynamicLoopStopOnRaise(entries, i + 1, path_head, rest_paths,
                                                    params))
                 ELSE DynamicLoopStopOnRaise(entries, i + 1, path_head, rest_paths, params)
         IN  Found(ParserParse(entries[i].parser, <<path_head>>))

\* a loop that returns what the first child whose pattern matches gives
DynamicLoopFirstMatch(entries, i, path_head, rest_paths, params) ==
    IF i > Len(entries) THEN NoMatch
    ELSE LET Found(parsed) ==
                 IF parsed.st = "ok"
                 THEN NodeGet(entries[i].node, rest_paths, MergeParams(params, parsed.named))
                 ELSE DynamicLoopFirstMatch(entries, i + 1, path_head, rest_paths, params)
         IN  Found(ParserParse(entries[i].parser, <<path_head>>))

\* a loop that prefers the children registered later
DynamicLoopLastMatch(entries, i, path_head, rest_paths, params) ==
    IF i > Len(entries) THEN NoMatch
    ELSE LET Found(parsed) ==
                 IF parsed.st = "ok"
                 THEN NodeGet(entries[i].node, rest_paths, MergeParams(params, parsed.named))
                 ELSE NoMatch
         IN  OrElse(DynamicLoopLastMatch(entries, i + 1, path_head, rest_paths, params),
                    Found(ParserParse(entries[i].parser, <<path_head>>)))

\* a loop that writes the captures of each child into the one params dict, so that
\* the children after an abandoned one see its captures
DynamicLoopSharedParams(entries, i, path_head, rest_paths, params) ==
    IF i > Len(entries) THEN NoMatch
    ELSE LET Found(parsed) ==
                 IF parsed.st = "ok"
                 THEN OrElse(NodeGet(entries[i].node, rest_paths,
                                     MergeParams(params, parsed.named)),
                             DynamicLoopSharedParams(entries, i + 1, path_head, rest_paths,
                                                     MergeParams(params, parsed.named)))
                 ELSE DynamicLoopSharedParams(entries, i + 1, path_head, rest_paths, params)
         IN  Found(ParserParse(entries[i].parser, <<path_head>>))

\* the for loop of _Node._get_from_dynamic_node, from the i-th entry on
DynamicLoop(entries, i, path_head, rest_paths, params) ==
    IF i > Len(entries) THEN NoMatch
    ELSE LET Found(parsed) ==
                 IF parsed.st = "ok"
                 THEN NodeGet(entries[i].node, rest_paths, MergeParams(params, parsed.named))
                 ELSE NoMatch
         IN  OrElse(Found(ParserParse(entries[i].parser, <<path_head>>)),
                    DynamicLoop(entries, i + 1, path_head, rest_paths, params))

\* _Node._get_from_dynamic_node
GetFromDynamicNode(node, path_head, rest_paths, params) ==
    DynamicLoop(node._dynamic_nodes, 1, path_head, rest_paths, params)

\* the for loop of _Node._get_from_rest_node, from the i-th entry on
RestLoop(entries, i, path, params) ==
    IF i > Len(entries) THEN NoMatch
    ELSE LET Found(parsed) ==
                 IF parsed.st = "ok"
                 THEN NodeGet(entries[i].node, <<>>, MergeParams(params, parsed.named))
                 ELSE NoMatch
         IN  OrElse(Found(ParserParse(entries[i].parser, path)),
                    RestLoop(entries, i + 1, path, params))

\* a rest lookup that hands the head part alone to the parsers
GetFromRestNodeHeadOnly(node, path_head, rest_paths, params) ==
    RestLoop(node._rest_nodes, 1, <<path_head>>, params)

\* _Node._get_from_rest_node
GetFromRestNode(node, path_head, rest_paths, params) ==
    RestLoop(node._rest_nodes, 1, <<path_head>> \o rest_paths, params)

\* a get that tries the rest children first, then the dynamic, then the static
NodeGetRestFirst(node, next_path_parts, params) ==
    IF next_path_parts = <<>>
    THEN IF node._handler = NoHandler THEN NoMatch ELSE _Matched(node._handler, params)
    ELSE LET head == Head(next_path_parts)
             rest_paths == Tail(next_path_parts)
         IN  OrElse(GetFromRestNode(node, head, rest_paths, params),
             OrElse(GetFromDynamicNode(node, head, rest_paths, params),
                    GetFromStaticNode(node, head, rest_paths, params)))

\* _Node.get
NodeGet(node, next_path_parts, params) ==
    IF next_path_parts = <<>>
    THEN IF node._handler = NoHandler THEN NoMatch ELSE _Matched(node._handler, params)
    ELSE LET head == Head(next_path_parts)
             rest_paths == Tail(next_path_parts)
         IN  OrElse(GetFromStaticNode(node, head, rest_paths, params),
             OrElse(GetFromDynamicNode(node, head, rest_paths, params),
                    GetFromRestNode(node, head, rest_paths, params)))

RECURSIVE NodeAppend(_, _, _, _)

\* a static child made anew by every registration that passes through it
AppendStaticNodeFresh(node, head, next_path_parts, handler, converters) ==
    [node EXCEPT !._static_nodes =
        (head :> NodeAppend(_Node, next_path_parts, handler, converters)) @@ @]

\* _Node._append_static_node
AppendStaticNode(node, head, next_path_parts, handler, converters) ==
    LET child == IF head \in DOMAIN node._static_nodes
                 THEN node._static_nodes[head] ELSE _Node
    IN  [node EXCEPT !._static_nodes =
            (head :> NodeAppend(child, next_path_parts, handler, converters)) @@ @]

\* _Node._append_dynamic_node; when compile raises the node is left as it is
AppendDynamicNode(node, path_head, rest_paths, handler, converters) ==
    LET fixed_head == FixPart(path_head)
        i == IndexOf(node._dynamic_nodes, fixed_head)
    IN  IF i = 0 /\ CompileRaises(<<fixed_head>>, converters) THEN node
        ELSE IF i = 0
        THEN [node EXCEPT !._dynamic_nodes = Append(@,
                [key |-> fixed_head, parser |-> Compile(<<fixed_head>>, converters),
                 node |-> NodeAppend(_Node, rest_paths, handler, converters)])]
        ELSE [node EXCEPT !._dynamic_nodes[i].node =
                NodeAppend(@, rest_paths, handler, converters)]

\* a rest child keyed and compiled from the head part alone, the parts after it dropped
AppendRestNodeHeadOnly(node, path_head, rest_paths, handler, converters) ==
    LET fixed_path == FixParts(<<path_head>>)
        i == IndexOf(node._rest_nodes, fixed_path)
    IN  IF i = 0 /\ CompileRaises(fixed_path, converters) THEN node
        ELSE IF i = 0
        THEN [node EXCEPT !._rest_nodes = Append(@,
                [key |-> fixed_path, parser |-> Compile(fixed_path, converters),
                 node |-> NodeAppend(_Node, <<>>, handler, converters)])]
        ELSE [node EXCEPT !._rest_nodes[i].node = NodeAppend(@, <<>>, handler, converters)]

\* _Node._append_rest_node; when compile raises the node is left as it is
AppendRestNode(node, path_head, rest_paths, handler, converters) ==
    LET fixed_path == FixParts(<<path_head>> \o rest_paths)
        i == IndexOf(node._rest_nodes, fixed_path)
    IN  IF i = 0 /\ CompileRaises(fixed_path, converters) THEN node
        ELSE IF i = 0
        THEN [node EXCEPT !._rest_nodes = Append(@,
                [key |-> fixed_path, parser |-> Compile(fixed_path, converters),
                 node |-> NodeAppend(_Node, <<>>, handler, converters)])]
        ELSE [node EXCEPT !._rest_nodes[i].node = NodeAppend(@, <<>>, handler, converters)]

\* _Node.append
NodeAppend(node, next_path_parts, handler, converters) ==
    IF next_path_parts = <<>> THEN [node EXCEPT !._handler = handler]
    ELSE LET head == Head(next_path_parts)
             rest_paths == Tail(next_path_parts)
         IN  IF IsRestPart(head)
             THEN AppendRestNode(node, head, rest_paths, handler, converters)
             ELSE IF IsDynamicPart(head)
             THEN AppendDynamicNode(node, head, rest_paths, handler, converters)
             ELSE AppendStaticNode(node, head, rest_paths, handler, converters)

\* _Node.append ends in the ValueError of compile
RECURSIVE NodeAppendRaises(_, _, _)
NodeAppendRaises(node, next_path_parts, converters) ==
    IF next_path_parts = <<>> THEN FALSE
    ELSE LET head == Head(next_path_parts)
             rest_paths == Tail(next_path_parts)
         IN  IF IsRestPart(head)
             THEN LET fixed_path == FixParts(next_path_parts)
                  IN  IndexOf(node._rest_nodes, fixed_path) = 0
                      /\ CompileRaises(fixed_path, converters)
             ELSE IF IsDynamicPart(head)
             THEN LET i == IndexOf(node._dynamic_nodes, FixPart(head))
                  IN  IF i = 0
                      THEN CompileRaises(<<FixPart(head)>>, converters)
                           \/ NodeAppendRaises(_Node, rest_paths, converters)
                      ELSE NodeAppendRaises(node._dynamic_nodes[i].node, rest_paths, converters)
             ELSE NodeAppendRaises(
                      IF head \in DOMAIN node._static_nodes
                      THEN node._static_nodes[head] ELSE _Node,
                      rest_paths, converters)

----------------------------------------------------------------------------
(* _DynamicRouter *)

\* _DynamicRouter.get
DynamicGet(root, path) == NodeGet(root, NextPathParts(path), NoParams)

\* root_node.append(next_path_parts, ...) for the parts of path: the trie after
\* it, and whether it ended in the ValueError of compile
RootAppend(root, path, handler, converters) ==
    [root |-> NodeAppend(root, NextPathParts(path), handler, converters),
     raised |-> NodeAppendRaises(root, NextPathParts(path), converters)]

\* if not self.get(alias_path): root_node.append(parts of alias_path, alias_handler, ...),
\* after the append of the primary path gave the result first
AliasAppend(first, alias_path, alias_handler, converters) ==
    IF first.raised \/ DynamicGet(first.root, alias_path).found THEN first
    ELSE RootAppend(first.root, alias_path, alias_handler, converters)

\* the value an append of the dynamic router gives: the trie, whether compile
\* raised, and the returned path
Appended(r, ret) == [root |-> r.root, raised |-> r.raised, ret |-> ret]

\* a strict that registers the other form as well
DynamicAppendStrictBoth(root, path, handler, converters) ==
    LET p == IF StartsWithSlash(path) THEN path ELSE PrependSlash(path)
    IN  Appended(RootAppend(RootAppend(root, p, handler, converters).root,
                            IF EndsWithSlash(p) THEN StripLastOrRoot(p) ELSE AppendSlash(p),
                            handler, converters), p)

\* _DynamicRouter._append_strict
DynamicAppendStrict(root, path, handler, converters) ==
    LET p == IF StartsWithSlash(path) THEN path ELSE PrependSlash(path)
    IN  Appended(RootAppend(root, p, handler, converters), p)

\* _DynamicRouter._append_clone
DynamicAppendClone(root, path, handler, converters) ==
    LET slash_path == normalize_path(path)
        no_trailing_slash == StripLastOrRoot(slash_path)
        original_path == IF EndsWithSlash(path) THEN slash_path ELSE no_trailing_slash
        modified_path == IF EndsWithSlash(path) THEN no_trailing_slash ELSE slash_path
    IN  Appended(AliasAppend(RootAppend(root, original_path, handler, converters),
                             modified_path, handler, converters), original_path)

\* _DynamicRouter._append_slash
DynamicAppendSlash(root, path, handler, converters, n) ==
    LET slash_path == normalize_path(path)
        no_trailing_slash == StripLastOrRoot(slash_path)
    IN  Appended(AliasAppend(RootAppend(root, slash_path, handler, converters),
                             no_trailing_slash, Redirect("slash", n), converters),
                 slash_path)

\* _DynamicRouter._append_no_slash
DynamicAppendNoSlash(root, path, handler, converters, n) ==
    LET slash_path == normalize_path(path)
        no_trailing_slash == StripLastOrRoot(slash_path)
    IN  Appended(AliasAppend(RootAppend(root, no_trailing_slash, handler, converters),
                             slash_path, Redirect("no_slash", n), converters),
                 no_trailing_slash)

\* _DynamicRouter.append
DynamicAppend(root, path, handler, converters, strategy, n) ==
    LET merged_converters == MergedConverters(converters)
    IN  IF strategy = "strict" THEN DynamicAppendStrict(root, path, handler, merged_converters)
        ELSE IF strategy = "clone"
        THEN DynamicAppendClone(root, path, handler, merged_converters)
        ELSE IF strategy = "slash"
        THEN DynamicAppendSlash(root, path, handler, merged_converters, n)
        ELSE DynamicAppendNoSlash(root, path, handler, merged_converters, n)

----------------------------------------------------------------------------
(* Router *)

Strategies == {"no_slash", "slash", "strict", "clone"}

\* strategy=None
None == "None"

\* a get that asks the trie before the static table
RouterGetTrieFirst(table, root, path) ==
    OrElse(DynamicGet(root, path), StaticGet(table, path))

\* Router.get
RouterGet(table, root, path) == OrElse(StaticGet(table, path), DynamicGet(root, path))

NoLookup == [path |-> Str(FALSE, <<EmptySeg>>), result |-> NoMatch, n |-> 0]

\* Router(default_strategy)
RouterInit(strategy) ==
    /\ default_strategy = strategy
    /\ routes = NoRoutes
    /\ root_node = _Node
    /\ log = <<>>
    /\ lookup = NoLookup

\* an append that takes the default strategy whatever strategy it is given
RouterAppendDefaultOnly(path, handler, converters, strategy) ==
    LET n == Len(log) + 1
        call == [path |-> path, handler |-> handler, converters |-> converters,
                 strategy |-> IF strategy = None THEN default_strategy ELSE strategy,
                 given |-> strategy]
    IN  /\ Len(log) < MaxAppends
        /\ IF HasPlaceholder(path)
           THEN LET Dynamic(r) ==
                        /\ root_node' = r.root
                        /\ routes' = routes
                        /\ log' = Append(log, [call |-> call, ret |-> r.ret,
                                               raised |-> r.raised])
                IN  Dynamic(DynamicAppend(root_node, path, handler, converters,
                                          default_strategy, n))
           ELSE LET Static(r) ==
                        /\ routes' = r.routes
                        /\ root_node' = root_node
                        /\ log' = Append(log, [call |-> call, ret |-> r.ret, raised |-> FALSE])
                IN  Static(StaticAppend(routes, path, handler, default_strategy, n))
        /\ lookup' = NoLookup
        /\ UNCHANGED <<default_strategy, api>>

\* Router.append(path, handler, converters=converters, strategy=strategy)
RouterAppend(path, handler, converters, strategy) ==
    LET s == IF strategy = None THEN default_strategy ELSE strategy
        n == Len(log) + 1
        call == [path |-> path, handler |-> handler, converters |-> converters,
                 strategy |-> s, given |-> strategy]
    IN  /\ Len(log) < MaxAppends
        /\ IF HasPlaceholder(path)
           THEN LET Dynamic(r) ==
                        /\ root_node' = r.root
                        /\ routes' = routes
                        /\ log' = Append(log, [call |-> call, ret |-> r.ret,
                                               raised |-> r.raised])
                IN  Dynamic(DynamicAppend(root_node, path, handler, converters, s, n))
           ELSE LET Static(r) ==
                        /\ routes' = r.routes
                        /\ root_node' = root_node
                        /\ log' = Append(log, [call |-> call, ret |-> r.ret, raised |-> FALSE])
                IN  Static(StaticAppend(routes, path, handler, s, n))
        /\ lookup' = NoLookup
        /\ UNCHANGED <<default_strategy, api>>

\* a get whose table stores the None of a missed path, as a defaultdict would
GetStoringMiss(path) ==
    LET n == IF lookup.n > 0 /\ lookup.path = path THEN lookup.n + 1 ELSE 1
    IN  /\ n <= MaxLookups
        /\ lookup' = [path |-> path, result |-> RouterGet(routes, root_node, path), n |-> n]
        /\ routes' = SetDefault(routes, path, NoHandler)
        /\ UNCHANGED <<default_strategy, root_node, log, api>>

\* Router.get(path): nothing of the router is assigned.  lookup.n counts the
\* calls in a row with the same path.
Get(path) ==
    LET n == IF lookup.n > 0 /\ lookup.path = path THEN lookup.n + 1 ELSE 1
    IN  /\ n <= MaxLookups
        /\ lookup' = [path |-> path, result |-> RouterGet(routes, root_node, path), n |-> n]
        /\ UNCHANGED <<default_strategy, routes, root_node, log, api>>

----------------------------------------------------------------------------
(* spangle.blueprint.Router and spangle.api.Api, the application object *)

\* the builtins of _add_dynamic merged with the converters of the route;
\* "rest_string" is default_converter unwrapped
BlueprintMerged(converters) ==
    LET builtins ==
            (ConvKey("int") :> _wrapper("int")) @@
            (ConvKey("float") :> _wrapper("float")) @@
            (ConvKey("str") :> _wrapper("str")) @@
            (ConvKey("default") :> _wrapper("default")) @@
            (ConvKey("rest_string") :> [fn |-> "default", pattern |-> LazyPattern])
    IN  [k \in DOMAIN builtins \cup DOMAIN converters |->
            IF k \in DOMAIN converters THEN _wrapper(converters[k]) ELSE builtins[k]]

\* The attributes of a handler class that registration and dispatch read:
\* allowed_methods as the class lists it (lower-cased by every reader, and
\* held lower-cased here) and the methods m it has an on_<m> attribute for.
\* h1 is a class without attributes; h2 has on_post and lists PURGE, a method
\* outside the nine that the code names; a Redirect class has the on_<m> its
\* type() call was given, and no allowed_methods.
ClassAttrs(handler) ==
    CASE handler.kind = "redirect" -> [allowed_methods |-> {}, on |-> handler.on]
      [] handler.name = "h2" -> [allowed_methods |-> {"purge"}, on |-> {"post"}]
      [] OTHER -> [allowed_methods |-> {}, on |-> {}]

\* the Redirect class of _add_static and _add_dynamic: type("Redirect",
\* (object,), {f"on_{method}": on_request for method in allowed_methods}),
\* where allowed_methods is get, head, options, the view's allowed_methods,
\* the unsafe methods the view has an on_<m> for, and "request"
RedirectClass(rule, n, view) ==
    LET unsafe == {"post", "put", "delete", "patch", "connect", "trace"}
    IN  [kind |-> "redirect", name |-> rule, n |-> n,
         on |-> {"get", "head", "options"} \cup ClassAttrs(view).allowed_methods
                \cup (unsafe \cap ClassAttrs(view).on) \cup {"request"}]

\* blueprint.Router._add_static; n numbers the Redirect class the call defines
_add_static(r, path, view, routing, n) ==
    LET slash_path == normalize_path(path)
        no_trailing_slash == StripLastOrRoot(slash_path)
        original_path == IF EndsWithSlash(path) THEN slash_path ELSE no_trailing_slash
        modified_path == IF EndsWithSlash(path) THEN no_trailing_slash ELSE slash_path
    IN  CASE routing = "strict" ->
                [routes |-> [r EXCEPT !.static = Put(@, original_path, view)],
                 ret |-> original_path, raised |-> FALSE]
          [] routing = "clone" ->
                [routes |-> [r EXCEPT !.static =
                                SetDefault(Put(@, original_path, view), modified_path, view)],
                 ret |-> original_path, raised |-> FALSE]
          [] routing = "slash" ->
                [routes |-> [r EXCEPT !.static =
                                SetDefault(Put(@, slash_path, view), no_trailing_slash,
                                           RedirectClass("slash", n, view))],
                 ret |-> slash_path, raised |-> FALSE]
          [] OTHER ->
                [routes |-> [r EXCEPT !.static =
                                SetDefault(Put(@, no_trailing_slash, view), slash_path,
                                           RedirectClass("no_slash", n, view))],
                 ret |-> no_trailing_slash, raised |-> FALSE]

\* blueprint.Router._add_dynamic.  compile raises on a format spec it does not
\* know before anything is stored.
_add_dynamic(r, path, view, converters, routing, n) ==
    LET fixed == Str(path.lead, FixParts(path.segs))
        fixed_path == IF routing # "strict" THEN normalize_path(fixed) ELSE fixed
        no_trailing_slash ==
            IF routing # "strict" THEN StripLastOrRoot(fixed_path) ELSE fixed_path
        original_path == IF EndsWithSlash(path) THEN fixed_path ELSE no_trailing_slash
        modified_path == IF EndsWithSlash(path) THEN no_trailing_slash ELSE fixed_path
        merged == BlueprintMerged(converters)
        Entry(p, v) == [parser |-> Compile(Split(p), merged), view |-> v]
        Stored(entries, ret) ==
            [routes |-> [r EXCEPT !.dynamic = @ \o entries], ret |-> ret, raised |-> FALSE]
        Raised == [routes |-> r, ret |-> path, raised |-> TRUE]
    IN  CASE routing = "strict" ->
                IF CompileRaises(Split(original_path), merged) THEN Raised
                ELSE Stored(<<Entry(original_path, view)>>, original_path)
          [] CompileRaises(Split(fixed_path), merged) -> Raised
          [] routing = "clone" ->
                Stored(<<Entry(original_path, view), Entry(modified_path, view)>>,
                       original_path)
          [] routing = "slash" ->
                Stored(<<Entry(fixed_path, view),
                         Entry(no_trailing_slash, RedirectClass("slash", n, view))>>,
                       fixed_path)
          [] OTHER ->
                Stored(<<Entry(no_trailing_slash, view),
                         Entry(fixed_path, RedirectClass("no_slash", n, view))>>,
                       no_trailing_slash)

\* blueprint.Router._add
_add(r, path, view, converters, routing, n) ==
    IF ~HasPlaceholder(path) THEN _add_static(r, path, view, routing, n)
    ELSE _add_dynamic(r, path, view, converters, routing, n)

\* the loop of blueprint.Router.get over routes["dynamic"]: a pattern whose
\* parse raises or gives None is passed over
RECURSIVE DynamicScan(_, _, _)
DynamicScan(dynamic, path, i) ==
    IF i > Len(dynamic) THEN NoMatch
    ELSE LET Parsed(parsed) ==
                 IF parsed.st = "ok" THEN _Matched(dynamic[i].view, parsed.named)
                 ELSE DynamicScan(dynamic, path, i + 1)
         IN  Parsed(ParserParse(dynamic[i].parser, Split(path)))

\* the body of blueprint.Router.get
BlueprintGet(r, path) ==
    IF path \in DOMAIN r.static THEN _Matched(r.static[path], NoParams)
    ELSE DynamicScan(r.dynamic, path, 1)

\* _dispatcher._init_view(cls, view_cache): the allowed_methods set on the
\* instance
_init_view(cls) ==
    LET unsafe == {"post", "put", "delete", "patch", "connect", "trace"}
    IN  {"get", "head", "options"} \cup ClassAttrs(cls).allowed_methods
        \cup (unsafe \cap ClassAttrs(cls).on)

\* _dispatcher._execute_http(req, resp, view, params) for the view of cls and
\* a request of the given method: the exception it raises, or what the
\* handlers it calls make of the response
_execute_http(cls, method) ==
    IF method \notin _init_view(cls) THEN "MethodNotAllowedError"
    ELSE IF cls.kind = "redirect" /\ {"request", method} \cap ClassAttrs(cls).on # {}
    THEN "redirect"
    ELSE "response"

\* Api(routing=routing), with Router(routing) of blueprint.py: routes is
\* {"static": {}, "dynamic": {}}.  The keys of the dynamic dict are compiled
\* Parser objects, which compare by identity: every assignment and every
\* setdefault adds an entry of its own, and the dict is walked in insertion
\* order.  cache is the lru_cache of get, count the number of route calls
\* made, response what the dispatcher made of the latest request.  The
\* default_route None is held as the path without parts, which no str is.
Api(routing, default_route) ==
    [routing |-> routing,
     routes |-> [static |-> NoRoutes, dynamic |-> <<>>],
     default_route |-> default_route,
     reverse_views |-> [v \in {} |-> Str(FALSE, <<EmptySeg>>)],
     cache |-> [p \in {} |-> NoMatch],
     count |-> 0,
     response |-> [outcome |-> "none", view |-> NoMatch, status_code |-> 0,
                   location |-> Str(FALSE, <<EmptySeg>>), query |-> <<>>,
                   request |-> [path |-> Str(FALSE, <<EmptySeg>>), method |-> "",
                                query_string |-> <<>>]]]

\* blueprint.Router.get under @lru_cache(): the result of the first call with a
\* path is the result of every later call with it
CachedGet(path) ==
    IF path \in DOMAIN api.cache THEN api.cache[path] ELSE BlueprintGet(api.routes, path)

\* re.sub(r"//+", "/", "/".join(["/" + "", child])) of add_blueprint
JoinUnderRoot(child) ==
    LET parts == SelectSeq(child.segs, LAMBDA seg : seg # EmptySeg)
    IN  IF parts = <<>> \/ EndsWithSlash(child)
        THEN Str(TRUE, parts \o <<EmptySeg>>)
        ELSE Str(TRUE, parts)

\* re.sub(r"{([^/:]+)(:[^/:]+)}", r"{\1}", normalized)
StripConverters(path) ==
    Str(path.lead, [i \in 1..Len(path.segs) |->
                        IF path.segs[i].ph /\ path.segs[i].conv.given
                        THEN Ph(path.segs[i].name, NoConv)
                        ELSE path.segs[i]])

\* str(n) of an int
RECURSIVE IntText(_)
IntText(n) ==
    IF n < 0 THEN <<"-">> \o IntText(0 - n)
    ELSE IF n < 10 THEN <<CHOOSE c \in DOMAIN DigitValue : DigitValue[c] = n>>
    ELSE IntText(n \div 10) \o IntText(n % 10)

\* path.format_map(params), for params that hold every field of the path: a
\* field is replaced by the text of its value
RECURSIVE FormatParts(_, _)
FormatParts(segs, params) ==
    LET PyStr(value) == IF value.t = "str" THEN value.s ELSE <<Lit(IntText(value.n))>>
    IN  IF segs = <<>> THEN <<>>
        ELSE (IF Head(segs).ph THEN PyStr(params[Head(segs).name]) ELSE <<Head(segs)>>)
             \o FormatParts(Tail(segs), params)

\* Api.url_for(view, params), for a registered view
url_for(view, params) ==
    LET path == api.reverse_views[view]
    IN  Str(path.lead, FormatParts(path.segs, params))

\* Api.route(path, converters=converters, routing=routing)(view): a Blueprint
\* of this one view, mounted by add_blueprint("", _bp)
ApiRoute(path, view, converters, routing) ==
    LET n == api.count + 1
        Added(r) ==
            api' = [api EXCEPT
                        !.routes = r.routes,
                        !.reverse_views =
                            IF r.raised THEN @
                            ELSE SetDefault(@, view, StripConverters(r.ret)),
                        !.count = n]
    IN  /\ api.count < MaxAppends
        /\ Added(_add(api.routes, JoinUnderRoot(path), view, converters,
                      IF routing = None THEN api.routing ELSE routing, n))
        /\ UNCHANGED <<default_strategy, routes, root_node, log, lookup>>

\* a redirect that leaves the query string of the request behind
on_requestNoQuery(rule, given_path, query_string) ==
    [status_code |-> 308,
     location |-> IF rule = "slash" THEN AppendSlash(given_path)
                  ELSE StripLastOrRoot(given_path),
     query |-> <<>>]

\* Redirect.on_request and what Response.__call__ sends for it: the status and
\* the location, url + "?" + query string when there is one.  rule tells the
\* two Redirect classes apart; given_path is req.url.path, a literal path.
on_request(rule, given_path, query_string) ==
    LET segs == given_path.segs
        cut == \* given_path[:-1]
            IF Last(segs) # EmptySeg
            THEN Str(given_path.lead, Front(segs) \o <<Lit(Front(Last(segs).text))>>)
            ELSE IF Len(segs) = 1 THEN Str(FALSE, <<EmptySeg>>)
            ELSE Str(given_path.lead, Front(segs))
    IN  [status_code |-> 308,
         location |-> IF rule = "slash" THEN AppendSlash(given_path)
                      ELSE IF cut = Str(FALSE, <<EmptySeg>>) THEN Str(TRUE, <<EmptySeg>>)
                      ELSE cut,
         query |-> IF query_string = <<>> THEN <<>> ELSE <<"?">> \o query_string]

\* _dispatcher._response_http for a request of the path (scope["path"], not
\* empty), method and query string, with _execute_http and the response sent:
\* root.get(path), on a miss root.get(root.default_route), then the view
ApiResponseHttp(path, method, query_string) ==
    LET asked == IF CachedGet(path).found \/ api.default_route = Str(FALSE, <<>>)
                 THEN {path} ELSE {path, api.default_route}
        Of(outcome, view, sent) ==
            [outcome |-> outcome, view |-> view, status_code |-> sent.status_code,
             location |-> sent.location, query |-> sent.query,
             request |-> [path |-> path, method |-> method,
                          query_string |-> query_string]]
        Nothing == [status_code |-> 0, location |-> Str(FALSE, <<EmptySeg>>), query |-> <<>>]
        Execute(view, outcome) ==
            Of(outcome, view,
               IF outcome = "redirect"
               THEN on_request(view.handler.name, path, query_string) ELSE Nothing)
        Answer(view) ==
            IF view.found THEN Execute(view, _execute_http(view.handler, method))
            ELSE IF api.default_route = Str(FALSE, <<>>) THEN Of("NotFoundError", NoMatch, Nothing)
            ELSE IF api.default_route = path \/ ~CachedGet(api.default_route).found
            THEN Of("AssertionError", NoMatch, Nothing)
            ELSE Execute(CachedGet(api.default_route),
                         _execute_http(CachedGet(api.default_route).handler, method))
    IN  /\ Cardinality(DOMAIN api.cache \cup asked) <= MaxLookups
        /\ api' = [api EXCEPT
                      !.cache = [p \in DOMAIN @ \cup asked |->
                                    IF p = path THEN CachedGet(path)
                                    ELSE CachedGet(p)],
                      !.response = Answer(CachedGet(path))]
        /\ UNCHANGED <<default_strategy, routes, root_node, log, lookup>>

\* Api.router.get(path)
ApiGet(path) ==
    /\ Cardinality(DOMAIN api.cache \cup {path}) <= MaxLookups
    /\ api' = [api EXCEPT !.cache = (path :> CachedGet(path)) @@ @]
    /\ UNCHANGED <<default_strategy, routes, root_node, log, lookup>>

----------------------------------------------------------------------------
(* The inputs *)

foo == <<"f", "o", "o">>

PRoot == Str(TRUE, <<EmptySeg>>)
PFoo == Str(TRUE, <<Lit(foo)>>)
PFooSlash == Str(TRUE, <<Lit(foo), EmptySeg>>)
PFooBare == Str(FALSE, <<Lit(foo)>>)
TIntFoo == Str(TRUE, <<Ph("n", Conv("int")), Lit(foo)>>)
TIntFooSlash == Str(TRUE, <<Ph("n", Conv("int")), Lit(foo), EmptySeg>>)
TAnyFoo == Str(TRUE, <<Ph("s", NoConv), Lit(foo)>>)
TIntX == Str(TRUE, <<Ph("a", Conv("int")), Lit(<<"x">>)>>)
TStrY == Str(TRUE, <<Ph("b", Conv("str")), Lit(<<"y">>)>>)
TRest == Str(TRUE, <<Lit(<<"a">>), Ph("rest", StarConv("rest_string"))>>)
TRestTail == Str(TRUE, <<Lit(<<"a">>), Ph("rest", StarConv("rest_string")), Lit(<<"t">>)>>)

StaticPaths == {PRoot, PFoo, PFooSlash, PFooBare}
DynamicPaths == {TIntFoo, TIntFooSlash, TAnyFoo, TIntX, TStrY, TRest, TRestTail}

Handlers == {View("h1"), View("h2")}

\* the request paths the get action is called with
GetPaths == {PFoo, PFooSlash, Str(TRUE, <<Lit(<<"5">>), Lit(foo)>>)}

----------------------------------------------------------------------------
(* Specifications *)

Init == \E s \in Strategies : RouterInit(s) /\ api = Api(s, Str(FALSE, <<>>))

\* any route with any strategy of its own
Next ==
    \/ \E p \in {PRoot, PFoo, PFooSlash, PFooBare, TIntFoo, TIntFooSlash, TAnyFoo},
          h \in Handlers,
          s \in Strategies \cup {None} :
            RouterAppend(p, h, NoConverters, s)
    \/ \E q \in GetPaths : Get(q)

Spec == Init /\ [][Next]_vars

\* every route under the strategy the router was made with, as an application
\* that never overrides the strategy registers them
NextUniform ==
    \/ \E p \in StaticPaths \cup DynamicPaths, h \in Handlers :
            RouterAppend(p, h, NoConverters, None)
    \/ \E q \in GetPaths : Get(q)

SpecUniform == Init /\ [][NextUniform]_vars

abc == <<"a", "b", "c">>

\* /{n:int}/{s:upper}, a template that needs a converter of the route
TIntUpper == Str(TRUE, <<Ph("n", Conv("int")), Ph("s", Conv("upper"))>>)

\* the request paths the get action is called with on routes with converters
ConverterGetPaths ==
    {Str(TRUE, <<Lit(<<"5">>), Lit(abc)>>), Str(TRUE, <<Lit(<<"5">>), Lit(abc), Lit(<<"x">>)>>)}

\* routes registered with and without converters of their own, under the
\* strategy the router was made with
NextConverters ==
    \/ \E p \in {TIntUpper, TIntFoo, PFoo}, h \in Handlers,
          c \in {NoConverters, UpperConverters} :
            RouterAppend(p, h, c, None)
    \/ \E q \in ConverterGetPaths : Get(q)

SpecConverters == Init /\ [][NextConverters]_vars

\* the literal paths /5/foo and /5/foo/, which the templates /{n:int}/foo and
\* /{s}/foo match as well
ShadowedPaths ==
    {Str(TRUE, <<Lit(<<"5">>), Lit(foo)>>), Str(TRUE, <<Lit(<<"5">>), Lit(foo), EmptySeg>>)}

\* literal routes and templates that match them, registered in any order
\* under any strategy, and requests for the literal paths
NextShadowed ==
    \/ \E p \in ShadowedPaths \cup {TIntFoo, TAnyFoo}, h \in Handlers,
          s \in Strategies \cup {None} :
            RouterAppend(p, h, NoConverters, s)
    \/ \E q \in ShadowedPaths : Get(q)

SpecShadowed == Init /\ [][NextShadowed]_vars

\* the paths of the views of an application: /, /foo, /foo/, /foo/bar,
\* /foo/{var} and /foo/{n:int}
ApiPaths ==
    {PRoot, PFoo, PFooSlash,
     Str(TRUE, <<Lit(foo), Lit(<<"b", "a", "r">>)>>),
     Str(TRUE, <<Lit(foo), Ph("var", NoConv)>>),
     Str(TRUE, <<Lit(foo), Ph("n", Conv("int"))>>)}

\* the request paths of the application: /foo, /foo/, /foo/bar, /foo/baz, /foo/5
ApiGetPaths ==
    {PFoo, PFooSlash} \cup
    {Str(TRUE, <<Lit(foo), Lit(text)>>) : text \in {<<"b", "a", "r">>, <<"b", "a", "z">>, <<"5">>}}

\* views routed on an Api and requests sent to its router
NextApi ==
    \/ \E p \in ApiPaths, v \in Handlers, s \in Strategies \cup {None} :
            ApiRoute(p, v, NoConverters, s)
    \/ \E q \in ApiGetPaths : ApiGet(q)

SpecApi == Init /\ [][NextApi]_vars

\* an Api made with or without a default route
InitDispatch ==
    \E s \in Strategies, d \in {Str(FALSE, <<>>), PFoo} : RouterInit(s) /\ api = Api(s, d)

\* views routed on the Api at /foo, /foo/ and /foo/{var} under its routing, and
\* the requests /foo, /foo/, /foo/bar and /foo/bar/ sent through its dispatcher
NextDispatch ==
    \/ \E p \in {PFoo, PFooSlash, Str(TRUE, <<Lit(foo), Ph("var", NoConv)>>)},
          v \in Handlers :
            ApiRoute(p, v, NoConverters, None)
    \/ \E q \in {PFoo, PFooSlash,
                  Str(TRUE, <<Lit(foo), Lit(<<"b", "a", "r">>)>>),
                  Str(TRUE, <<Lit(foo), Lit(<<"b", "a", "r">>), EmptySeg>>)},
          m \in {"get", "purge"}, qs \in {<<>>, <<"a", "=", "1">>} :
            ApiResponseHttp(q, m, qs)

SpecDispatch == InitDispatch /\ [][NextDispatch]_vars

\* templates that give one node children of several kinds: /a/{n} and
\* /a/{rest:*rest_string} under the static child a of the root, /{s}/foo and
\* /{rest:*rest_string} at the root
KindPaths ==
    {Str(TRUE, <<Lit(<<"a">>), Ph("n", NoConv)>>), TRest, TAnyFoo,
     Str(TRUE, <<Ph("rest", StarConv("rest_string"))>>)}

\* the templates registered as they are written (strict), in any order
NextKinds ==
    \/ \E p \in KindPaths, h \in Handlers : RouterAppend(p, h, NoConverters, "strict")
    \/ \E q \in {Str(TRUE, <<Lit(<<"a">>), Lit(foo)>>), Str(TRUE, <<Lit(<<"x">>), Lit(foo)>>),
                  Str(TRUE, <<Lit(<<"a">>), Lit(<<"x">>)>>)} : Get(q)

SpecKinds == Init /\ [][NextKinds]_vars

----------------------------------------------------------------------------
(* Properties *)

\* get(path) on the router as it is now
GetNow(path) == RouterGet(routes, root_node, path)

\* path[:-1], for a path that ends with "/"
StripLast(path) ==
    IF Len(path.segs) = 1 THEN Str(FALSE, <<EmptySeg>>) ELSE Str(path.lead, Front(path.segs))

\* the request path with its trailing slash toggled
Toggle(path) == IF EndsWithSlash(path) THEN StripLast(path) ELSE AppendSlash(path)

Req(segs) == Str(TRUE, segs)

\* the texts the request paths of the properties are made of
ProbeTexts == {foo, <<"a">>, <<"x">>, <<"y">>, <<"5">>, <<"1", "2", "3">>, <<"-", "7">>,
               <<"+", "5">>, <<"1", "_", "0">>, <<"5", "x">>}

ProbeParts == {Lit(t) : t \in ProbeTexts}

\* the request paths of one and of two parts, without and with a trailing slash
Probes ==
    LET bare == {Req(<<a>>) : a \in ProbeParts}
                \cup {Req(<<a, b>>) : a \in ProbeParts, b \in {Lit(foo), Lit(<<"x">>), Lit(<<"y">>)}}
    IN  bare \cup {AppendSlash(q) : q \in bare}

\* The request read against one whole route template, the way parse reads a str
\* against a format: a literal part is itself, a placeholder is one non-empty part
\* that its converter accepts, a rest placeholder is the remaining parts.
Against(q, template) ==
    IF q.lead /\ template.lead
    THEN ParserParse(Compile(FixParts(template.segs), MergedConverters(NoConverters)), q.segs)
    ELSE [st |-> "none", named |-> NoParams]

\* the request matches the route template
Instance(q, template) == Against(q, template).st = "ok"

\* the same handler: the same view, or a redirect of the same rule
SameHandler(g, h) == g.kind = h.kind /\ g.name = h.name

IsStar(path) == \E i \in 1..Len(path.segs) : IsRestPart(path.segs[i])

\* C1: an append under clone, slash or no_slash leaves every request that the
\* alias variant of its path (the returned path with the trailing slash toggled)
\* resolved before the call resolved to the same handler after it
C1_AliasNeverOverwritten ==
    [][\A q \in Probes :
        (/\ Len(log') = Len(log) + 1
         /\ Last(log').call.strategy \in {"clone", "slash", "no_slash"}
         /\ Last(log').ret # PRoot
         /\ Instance(q, Toggle(Last(log').ret))
         /\ GetNow(q).found)
        => /\ RouterGet(routes', root_node', q).found
           /\ SameHandler(RouterGet(routes', root_node', q).handler, GetNow(q).handler)]_vars

\* every call of the log used the clone strategy
AllClone == \A i \in 1..Len(log) : log[i].call.strategy = "clone"

CallsOf(r) ==
    {i \in 1..Len(log) : normalize_path(log[i].call.path) = normalize_path(r)}

AllUnder(strategy) == \A i \in 1..Len(log) : log[i].call.strategy = strategy

\* the handler of the latest call that registered the route of the path r
LatestHandler(r) ==
    log[CHOOSE i \in CallsOf(r) : \A j \in CallsOf(r) : j <= i].call.handler

\* C3: on a router whose routes are all registered under no_slash, every
\* registered literal path other than "/" resolves without its trailing slash to
\* its handler with empty parameters and with the trailing slash to a redirect
\* handler, not that handler, with empty parameters
C3_NoSlashLiteral ==
    AllUnder("no_slash") =>
        \A i \in 1..Len(log) :
            LET r == log[i].ret
                h == LatestHandler(r)
            IN  (~HasPlaceholder(r) /\ r # PRoot) =>
                    /\ ~EndsWithSlash(r)
                    /\ GetNow(r) = _Matched(h, NoParams)
                    /\ GetNow(AppendSlash(r)).found
                    /\ RedirectBase(GetNow(AppendSlash(r)).handler)
                    /\ GetNow(AppendSlash(r)).handler # h
                    /\ GetNow(AppendSlash(r)).params = NoParams

\* C3, its case: the path was given with its trailing slash and once without
C3_Witness ==
    /\ AllUnder("no_slash") /\ Len(log) = 2
    /\ log[1].call.path = PFooSlash /\ log[2].call.path = PFooBare
    /\ log[1].call.handler # log[2].call.handler
    /\ GetNow(PFoo).handler = log[2].call.handler
    /\ RedirectBase(GetNow(PFooSlash).handler)

\* C4: on a router whose routes are all registered under slash, every registered
\* literal path other than "/" resolves with its trailing slash to its handler
\* with empty parameters and without it to a redirect handler, not that handler,
\* with empty parameters
C4_SlashLiteral ==
    AllUnder("slash") =>
        \A i \in 1..Len(log) :
            LET r == log[i].ret
                h == LatestHandler(r)
            IN  (~HasPlaceholder(r) /\ r # PRoot) =>
                    /\ EndsWithSlash(r)
                    /\ GetNow(r) = _Matched(h, NoParams)
                    /\ GetNow(StripLast(r)).found
                    /\ RedirectBase(GetNow(StripLast(r)).handler)
                    /\ GetNow(StripLast(r)).handler # h
                    /\ GetNow(StripLast(r)).params = NoParams

\* C4, its case: the path was given without its trailing slash and once with it
C4_Witness ==
    /\ AllUnder("slash") /\ Len(log) = 2
    /\ log[1].call.path = PFoo /\ log[2].call.path = PFooSlash
    /\ log[1].call.handler # log[2].call.handler
    /\ GetNow(PFooSlash).handler = log[2].call.handler
    /\ RedirectBase(GetNow(PFoo).handler)

\* every call of the log registered the same path
OneRoute == \A i, j \in 1..Len(log) : log[i].ret = log[j].ret

C6_StrictStaticLookup ==
    (/\ Len(log) >= 1
     /\ Last(log).call.strategy = "strict"
     /\ ~HasPlaceholder(Last(log).call.path)
     /\ StartsWithSlash(Last(log).call.path)) =>
        /\ GetNow(Last(log).call.path) = _Matched(Last(log).call.handler, NoParams)
        /\ (lookup.n >= 1 /\ lookup.path = Last(log).call.path)
            => lookup.result = _Matched(Last(log).call.handler, NoParams)

\* C6, its case: get(p) called twice after the strict append of p
C6_Witness ==
    /\ Len(log) = 2 /\ Last(log).call.strategy = "strict"
    /\ Last(log).call.given = "strict"
    /\ Last(log).call.path = PFooSlash
    /\ lookup.n = 2 /\ lookup.path = PFooSlash
    /\ lookup.result.handler = Last(log).call.handler

\* the registered path without its trailing slash
NoSlashForm(path) == IF EndsWithSlash(path) THEN StripLast(path) ELSE path

\* C7 as stated: for a template registered alone, a request q without a
\* trailing slash that matches the template and q plus "/" resolve, under
\* no_slash, to the handler and to a redirect with the same parameters; under
\* slash, to a redirect and to the handler with the same parameters; under clone,
\* both to the handler with the same parameters
C7_StrategiesOnTemplates ==
    (Len(log) = 1 /\ HasPlaceholder(log[1].ret) /\ ~log[1].raised) =>
        \A q \in Probes :
            LET t == NoSlashForm(log[1].ret)
                h == log[1].call.handler
                real == _Matched(h, Against(q, t).named)
                a == GetNow(q)
                b == GetNow(AppendSlash(q))
            IN  (~EndsWithSlash(q) /\ Instance(q, t)) =>
                    CASE log[1].call.strategy = "no_slash" ->
                            /\ a = real
                            /\ b.found /\ RedirectBase(b.handler) /\ b.params = real.params
                      [] log[1].call.strategy = "slash" ->
                            /\ b = real
                            /\ a.found /\ RedirectBase(a.handler) /\ a.params = real.params
                      [] log[1].call.strategy = "clone" -> a = real /\ b = real
                      [] OTHER -> TRUE

\* the paths one call registers: the returned path and, unless strict, its alias
Forms(i) ==
    {log[i].ret} \cup (IF log[i].call.strategy = "strict" THEN {} ELSE {Toggle(log[i].ret)})

\* C8: a request that matches the primary path of one registered route, and no
\* path or alias of another route, resolves to that route's latest handler with
\* the parameters of that template, whatever siblings were registered before it
\* and match the request's first parts only
C8_Backtracking ==
    \A q \in Probes : \A i \in 1..Len(log) :
        (/\ Instance(q, log[i].ret)
         /\ \A j \in 1..Len(log) :
                (\E f \in Forms(j) : Instance(q, f)) => log[j].ret = log[i].ret) =>
            LET last == CHOOSE j \in 1..Len(log) :
                            /\ log[j].ret = log[i].ret
                            /\ \A k \in 1..Len(log) : log[k].ret = log[i].ret => k <= j
            IN  GetNow(q) = _Matched(log[last].call.handler, Against(q, log[i].ret).named)

\* C8, its case: /{a:int}/x, then /{b:str}/y, and the request /5/y
C8_Witness ==
    /\ Len(log) = 2 /\ log[1].call.path = TIntX /\ log[2].call.path = TStrY
    /\ log[1].call.handler # log[2].call.handler
    /\ default_strategy = "no_slash"
    /\ ParserParse(root_node._dynamic_nodes[1].parser, <<Lit(<<"5">>)>>).st = "ok"
    /\ GetNow(Req(<<Lit(<<"5">>), Lit(<<"y">>)>>))
        = _Matched(log[2].call.handler, ("b" :> StrValue(<<Lit(<<"5">>)>>)))

\* the spec's integer literal, -?\d+
IntegerLiteral(text) ==
    LET d == IF text # <<>> /\ Head(text) = "-" THEN Tail(text) ELSE text
    IN  d # <<>> /\ \A i \in 1..Len(d) : IsDigit(d[i])

\* C9 as stated: with /{n:int}/foo registered alone (strict, no_slash or clone),
\* the request /t/foo resolves to the handler with n the integer value of t when
\* t is an integer literal, and to None when it is not
C9_TypedCapture ==
    (/\ Len(log) >= 1 /\ \A i \in 1..Len(log) : log[i].call.path = TIntFoo
     /\ default_strategy # "slash") =>
        \A t \in ProbeTexts :
            LET q == Req(<<Lit(t), Lit(foo)>>)
            IN  IF IntegerLiteral(t)
                THEN GetNow(q) = _Matched(Last(log).call.handler,
                                          ("n" :> IntValue(PyInt(t).n)))
                ELSE ~GetNow(q).found

\* the parts that follow the static prefix in the requests of C10
Remainders ==
    {<<Lit(<<"x">>)>>, <<Lit(<<"x">>), Lit(<<"y">>)>>,
     <<Lit(<<"x">>), Lit(<<"y">>), Lit(<<"z">>)>>, <<Lit(<<"5">>), Lit(foo)>>,
     <<Lit(<<"x">>), EmptySeg>>, <<EmptySeg, Lit(<<"x">>)>>}

\* C10: with /a/{rest:*rest_string} registered under strict or no_slash, every
\* request /a/ followed by a non-empty remainder resolves to the route's handler
\* with rest bound to the whole remainder, its slashes included
C10_RestCapture ==
    (/\ Len(log) >= 1 /\ \A i \in 1..Len(log) : log[i].call.path = TRest
     /\ default_strategy \in {"strict", "no_slash"}) =>
        \A rem \in Remainders :
            GetNow(Req(<<Lit(<<"a">>)>> \o rem))
                = _Matched(Last(log).call.handler, ("rest" :> StrValue(rem)))

\* C10, its case: the request /a/x/y/z on the default no_slash
C10_Witness ==
    /\ Len(log) = 1 /\ log[1].call.path = TRest /\ log[1].call.given = None
    /\ default_strategy = "no_slash"
    /\ GetNow(Req(<<Lit(<<"a">>), Lit(<<"x">>), Lit(<<"y">>), Lit(<<"z">>)>>)).params["rest"]
        = StrValue(<<Lit(<<"x">>), Lit(<<"y">>), Lit(<<"z">>)>>)

\* what str.upper gives on the second parts of the requests of C11
Uppered ==
    (abc :> <<"A", "B", "C">>) @@ (foo :> <<"F", "O", "O">>) @@ (<<"5">> :> <<"5">>)

\* C11: with /{n:int}/{s:upper} registered with the converter upper (strict,
\* no_slash or clone), a request of two parts whose first part int() accepts
\* resolves to the handler with n the integer and s the second part in upper
\* case, and a request with more parts after these two resolves to None
C11_CustomConverters ==
    (/\ Len(log) >= 1
     /\ \A i \in 1..Len(log) :
            log[i].call.path = TIntUpper /\ log[i].call.converters = UpperConverters
     /\ default_strategy # "slash") =>
        \A a \in {<<"5">>, <<"1", "2", "3">>, <<"-", "7">>, <<"x">>}, b \in DOMAIN Uppered :
            /\ PyInt(a).ok =>
                GetNow(Req(<<Lit(a), Lit(b)>>))
                    = _Matched(Last(log).call.handler,
                               ("n" :> IntValue(PyInt(a).n))
                                   @@ ("s" :> StrValue(<<Lit(Uppered[b])>>)))
            /\ ~GetNow(Req(<<Lit(a), Lit(b), Lit(<<"x">>)>>)).found
            /\ ~GetNow(Req(<<Lit(a), Lit(b), Lit(<<"x">>), Lit(<<"y">>)>>)).found

\* C11, its case: /5/abc gives {n: 5, s: "ABC"}
C11_Witness ==
    /\ Len(log) = 1 /\ log[1].call.path = TIntUpper
    /\ log[1].call.converters = UpperConverters /\ ~log[1].raised
    /\ GetNow(Req(<<Lit(<<"5">>), Lit(abc)>>)).params
        = ("n" :> IntValue(5)) @@ ("s" :> StrValue(<<Lit(<<"A", "B", "C">>)>>))
    /\ lookup.n = 1 /\ lookup.path = Req(<<Lit(<<"5">>), Lit(abc), Lit(<<"x">>)>>)
    /\ ~lookup.result.found

\* what get can return: None, or a handler with a dict of parameters
Returned(m) ==
    \/ m = NoMatch
    \/ /\ m.found /\ m.handler.kind \in {"view", "redirect"}
       /\ DOMAIN m.params \subseteq {"n", "s", "a", "b", "rest"}

\* C12: get gives None or a handler with parameters for every request, and a
\* request that a registered template matches is found, also when the
\* converter of a child registered before raises on the request's part
C12_LookupNeverRaises ==
    /\ Returned(lookup.result)
    /\ \A q \in Probes \cup {PRoot, PFooBare, Str(FALSE, <<EmptySeg>>)} :
        /\ Returned(GetNow(q))
        /\ \A i \in 1..Len(log) :
            (~log[i].raised /\ Instance(q, log[i].ret)) => GetNow(q).found

\* C12, its case: int() raises on the part x of /x/foo at the child registered
\* first, and the child registered second gives the match
C12_Witness ==
    /\ Len(log) = 2 /\ log[1].call.path = TIntFoo /\ log[2].call.path = TAnyFoo
    /\ log[1].call.handler # log[2].call.handler
    /\ default_strategy = "strict"
    /\ ParserParse(root_node._dynamic_nodes[1].parser, <<Lit(<<"x">>)>>).st = "raise"
    /\ GetNow(Req(<<Lit(<<"x">>), Lit(foo)>>))
        = _Matched(log[2].call.handler, ("s" :> StrValue(<<Lit(<<"x">>)>>)))

\* C13: a get call leaves the route table, the trie and the default strategy
\* as they were, and returns what a get of its path on the router as the last
\* append left it returns, whatever get calls came between
C13_LookupReadOnly ==
    [][Len(log') = Len(log) =>
        /\ routes' = routes
        /\ root_node' = root_node
        /\ default_strategy' = default_strategy
        /\ lookup'.result = GetNow(lookup'.path)
        /\ lookup'.result = RouterGet(routes', root_node', lookup'.path)]_vars

\* C13, its case: the second get in a row of /5/foo, on a trie with two
\* registrations, gives the parameters again
C13_Witness ==
    /\ Len(log) = 2 /\ HasPlaceholder(log[1].ret) /\ ~HasPlaceholder(log[2].ret)
    /\ lookup.n = 2 /\ lookup.path = Req(<<Lit(<<"5">>), Lit(foo)>>)
    /\ lookup.result.found /\ lookup.result.params = ("n" :> IntValue(5))

\* C14: append("/", h) under no_slash, slash or clone returns "/", sets the
\* entry "/" of the route table to h and adds no other entry, leaves the trie
\* alone, and get("/") is (h, {}) after it
C14_RootSpecialCase ==
    [][(/\ Len(log') = Len(log) + 1
        /\ Last(log').call.path = PRoot
        /\ Last(log').call.strategy \in {"no_slash", "slash", "clone"}) =>
            /\ Last(log').ret = PRoot
            /\ routes' = (PRoot :> Last(log').call.handler) @@ routes
            /\ root_node' = root_node
            /\ RouterGet(routes', root_node', PRoot)
                = _Matched(Last(log').call.handler, NoParams)]_vars

\* C14, its case: "/" registered under no_slash after /foo
C14_Witness ==
    /\ Len(log) = 2 /\ log[1].call.path = PFoo /\ log[1].call.strategy = "no_slash"
    /\ log[2].call.path = PRoot /\ log[2].call.strategy = "no_slash"
    /\ DOMAIN routes = {PFoo, PFooSlash, PRoot}
    /\ GetNow(PRoot) = _Matched(log[2].call.handler, NoParams)

\* the requests of C15: instances of the routes, in both forms
OverrideProbes ==
    {Req(<<Lit(foo)>>), Req(<<Lit(foo), EmptySeg>>),
     Req(<<Lit(<<"5">>), Lit(foo)>>), Req(<<Lit(<<"5">>), Lit(foo), EmptySeg>>),
     Req(<<Lit(<<"x">>), Lit(foo)>>), Req(<<Lit(<<"x">>), Lit(foo), EmptySeg>>)}

\* no other call of the log registered a path that the request, in either
\* form, matches
OnlyRoute(i, q) ==
    \A j \in 1..Len(log) :
        j # i => \A f \in {log[j].ret, Toggle(log[j].ret)} :
                    ~Instance(q, f) /\ ~Instance(Toggle(q), f)

\* C15: a route behaves as the strategy of its own call says (the given one,
\* or the default of the router when None was given), whatever the default and
\* the strategies of the other routes are: a request that matches its returned
\* path gives its handler; the same request with the trailing slash toggled
\* gives None under strict, the handler under clone, and the Redirect class
\* that this call made for its strategy under slash and no_slash
C15_PerRouteStrategy ==
    \A i \in 1..Len(log) : \A q \in OverrideProbes :
        LET s == log[i].call.strategy
            h == log[i].call.handler
            real == _Matched(h, Against(q, log[i].ret).named)
            other == GetNow(Toggle(q))
        IN  /\ s = (IF log[i].call.given = None THEN default_strategy ELSE log[i].call.given)
            /\ (Instance(q, log[i].ret) /\ OnlyRoute(i, q)) =>
                /\ GetNow(q) = real
                /\ CASE s = "strict" -> ~other.found
                     [] s = "clone" -> other = real
                     [] OTHER -> other = _Matched(Redirect(s, i), real.params)

\* C15, its case: /foo given slash on a no_slash router, then a template left
\* to the default
C15_Witness ==
    /\ default_strategy = "no_slash" /\ Len(log) = 2
    /\ log[1].call.path = PFoo /\ log[1].call.given = "slash"
    /\ log[2].call.path = TIntFoo /\ log[2].call.given = None
    /\ GetNow(PFoo).handler = Redirect("slash", 1)
    /\ GetNow(PFooSlash).handler = log[1].call.handler
    /\ GetNow(Req(<<Lit(<<"5">>), Lit(foo), EmptySeg>>)).handler = Redirect("no_slash", 2)
    /\ GetNow(Req(<<Lit(<<"5">>), Lit(foo)>>)).handler = log[2].call.handler

\* the path append is to return for each literal path and strategy
PrimaryKey ==
    [p \in {PRoot, PFoo, PFooSlash, PFooBare}, s \in Strategies |->
        CASE p = PRoot -> PRoot
          [] s \in {"strict", "clone"} -> IF p = PFooSlash THEN PFooSlash ELSE PFoo
          [] s = "slash" -> PFooSlash
          [] OTHER -> PFoo]

\* C16: after r = append(p, h, s) of a literal path, until the next append, r
\* is the primary key of p under s and get(r) is (h, {})
C16_AppendReturnsPrimaryKey ==
    (Len(log) >= 1 /\ ~HasPlaceholder(Last(log).call.path)) =>
        /\ Last(log).ret = PrimaryKey[Last(log).call.path, Last(log).call.strategy]
        /\ GetNow(Last(log).ret) = _Matched(Last(log).call.handler, NoParams)

\* C16, its case: "foo" under slash returns /foo/ where another handler was
\* registered under strict before
C16_Witness ==
    /\ Len(log) = 2
    /\ log[1].call.path = PFooSlash /\ log[1].call.strategy = "strict"
    /\ log[2].call.path = PFooBare /\ log[2].call.given = "slash"
    /\ log[1].call.handler # log[2].call.handler
    /\ log[2].ret = PFooSlash
    /\ GetNow(PFooSlash).handler = log[2].call.handler

----------------------------------------------------------------------------
\* C17: after any sequence of route registrations on an Api (and no request
\* yet), for every registered view v and params, router.get(url_for(v, params))
\* returns v, with empty parameters for a literal path and with the given
\* params for a template: the path recorded for v is not taken over by
\* another view.
C17_ReverseLookupRoundTrip ==
    LET FieldsOf(path) ==
            {path.segs[i].name : i \in {j \in 1..Len(path.segs) : path.segs[j].ph}}
        ApiParams ==
            {("var" :> StrValue(<<Lit(text)>>)) @@ ("n" :> IntValue(5)) :
                text \in {<<"b", "a", "r">>, <<"b", "a", "z">>}}
    IN  DOMAIN api.cache = {} =>
            \A v \in DOMAIN api.reverse_views : \A params \in ApiParams :
                CachedGet(url_for(v, params)) =
                    _Matched(v, [k \in FieldsOf(api.reverse_views[v]) |-> params[k]])

----------------------------------------------------------------------------
\* C18: a request path that is a key of the static table gets that entry's
\* handler with empty parameters, whether or not a template registered earlier
\* or later matches the path too; both for the router as it stands and for
\* the get call that was made.
C18_StaticTableFirst ==
    /\ \A q \in DOMAIN routes : GetNow(q) = _Matched(routes[q], NoParams)
    /\ lookup.n > 0 /\ lookup.path \in DOMAIN routes =>
            lookup.result = _Matched(routes[lookup.path], NoParams)

\* C18, its case: /5/foo was requested while the table held it for one handler
\* and the trie matched it for another, the template being registered first
C18_Witness ==
    /\ Len(log) = 2
    /\ HasPlaceholder(log[1].call.path) /\ ~HasPlaceholder(log[2].call.path)
    /\ lookup.n > 0 /\ lookup.path \in DOMAIN routes
    /\ DynamicGet(root_node, lookup.path).found
    /\ DynamicGet(root_node, lookup.path).handler # routes[lookup.path]
    /\ lookup.result.handler = routes[lookup.path]
    /\ lookup.result.params = NoParams

----------------------------------------------------------------------------
----------------------------------------------------------------------------
\* the calls that registered a template whose first part is the placeholder key
CallsAt(key) ==
    {k \in 1..Len(log) :
        /\ HasPlaceholder(log[k].call.path) /\ ~log[k].raised
        /\ FixPart(log[k].call.path.segs[1]) = key}

\* what the i-th dynamic child of the root gives for the request q
ChildGet(i, q) ==
    LET entry == root_node._dynamic_nodes[i]
        Found(parsed) ==
            IF parsed.st = "ok" THEN NodeGet(entry.node, Tail(q.segs), parsed.named)
            ELSE NoMatch
    IN  Found(ParserParse(entry.parser, <<Head(q.segs)>>))

\* C20: the dynamic children of the root stand in the order in which their
\* placeholders were first registered, and a request outside the static table
\* that several of them match, head and remaining parts, gets the route of
\* the first of them: a handler (or redirect) and the parameter names of a
\* registration of that placeholder, whatever converters the later ones have.
C20_FirstSiblingWins ==
    LET entries == root_node._dynamic_nodes
        First(key) == CHOOSE k \in CallsAt(key) : \A m \in CallsAt(key) : k <= m
        Matching(q) == {i \in 1..Len(entries) : ChildGet(i, q).found}
    IN  /\ \A i \in 1..Len(entries) : CallsAt(entries[i].key) # {}
        /\ \A i, j \in 1..Len(entries) :
                i < j => First(entries[i].key) < First(entries[j].key)
        /\ \A q \in Probes :
                (q \notin DOMAIN routes /\ Matching(q) # {}) =>
                    LET i == CHOOSE m \in Matching(q) : \A n \in Matching(q) : m <= n
                    IN  /\ GetNow(q) = ChildGet(i, q)
                        /\ \E k \in CallsAt(entries[i].key) :
                                \/ GetNow(q).handler = log[k].call.handler
                                \/ GetNow(q).handler = Redirect(log[k].call.strategy, k)

\* C20, its case: /{s}/foo for h1, then /{n:int}/foo for h2, both strict; the
\* two children match /5/foo and the request gets h1 with s = "5"
C20_Witness ==
    /\ Len(log) = 2
    /\ log[1].call.path = TAnyFoo /\ log[2].call.path = TIntFoo
    /\ log[1].call.strategy = "strict" /\ log[2].call.strategy = "strict"
    /\ log[1].call.handler = View("h1") /\ log[2].call.handler = View("h2")
    /\ ChildGet(1, Req(<<Lit(<<"5">>), Lit(foo)>>)).found
    /\ ChildGet(2, Req(<<Lit(<<"5">>), Lit(foo)>>)) = _Matched(View("h2"), ("n" :> IntValue(5)))
    /\ GetNow(Req(<<Lit(<<"5">>), Lit(foo)>>))
        = _Matched(View("h1"), ("s" :> StrValue(<<Lit(<<"5">>)>>)))

----------------------------------------------------------------------------
\* C21: the Redirect class that the latest registration (under slash or
\* no_slash) put on the alias of its path answers every method the real
\* handler allows with the redirect, never with method-not-allowed.
C21_RedirectNotBlocked ==
    \A q \in DOMAIN api.routes.static :
        LET r == api.routes.static[q]
            p == IF EndsWithSlash(q) THEN StripLastOrRoot(q) ELSE AppendSlash(q)
        IN  (/\ r.kind = "redirect" /\ r.n = api.count
             /\ p \in DOMAIN api.routes.static
             /\ api.routes.static[p].kind = "view") =>
                \A m \in _init_view(api.routes.static[p]) :
                    _execute_http(r, m) = "redirect"

----------------------------------------------------------------------------
\* C22: a request that the dispatcher answered from a Redirect class got status
\* 308 and a location made of the request's own path: with "/" appended for
\* a slash redirect, without its final "/" for a no_slash redirect (which
\* only paths ending in "/" reach), never a template, followed by "?" and the
\* request's query string when it has one.
C22_RedirectTarget ==
    LET r == api.response
        q == r.request.path
    IN  r.outcome = "redirect" =>
            /\ r.status_code = 308
            /\ r.view.handler.kind = "redirect"
            /\ r.view.handler.name \in {"slash", "no_slash"}
            /\ r.view.handler.name = "slash" =>
                    r.location = Str(q.lead, q.segs \o <<EmptySeg>>)
            /\ r.view.handler.name = "no_slash" =>
                    /\ EndsWithSlash(q) /\ Len(q.segs) >= 2
                    /\ r.location = Str(q.lead, Front(q.segs))
            /\ ~HasPlaceholder(r.location)
            /\ r.query = IF r.request.query_string = <<>> THEN <<>>
                         ELSE <<"?">> \o r.request.query_string

\* C22, its case: /foo/bar/?a=1 answered by the no_slash alias of /foo/{var}
C22_Witness ==
    /\ api.response.outcome = "redirect"
    /\ api.response.view.handler.name = "no_slash"
    /\ api.response.view.params = ("var" :> StrValue(<<Lit(<<"b", "a", "r">>)>>))
    /\ api.response.request.path = Str(TRUE, <<Lit(foo), Lit(<<"b", "a", "r">>), EmptySeg>>)
    /\ api.response.request.query_string = <<"a", "=", "1">>
    /\ api.response.location = Str(TRUE, <<Lit(foo), Lit(<<"b", "a", "r">>)>>)
    /\ api.response.query = <<"?", "a", "=", "1">>

----------------------------------------------------------------------------
\* C23: every request the dispatcher handled ended in one of three ways: the
\* handler that router.get(path) matched was invoked; or, on a miss with a
\* default route, the handler registered at the default route was invoked;
\* or, on a miss without a default route, NotFoundError was raised.  (Invoking
\* a handler covers the method filter and the redirect it may answer with.)
C23_DispatchExhaustive ==
    LET r == api.response
        first == api.cache[r.request.path]
        invoked == {"response", "redirect", "MethodNotAllowedError"}
    IN  r.outcome # "none" =>
            /\ r.outcome \in invoked \cup {"NotFoundError"}
            /\ first.found => r.outcome \in invoked /\ r.view = first
            /\ (~first.found /\ api.default_route # Str(FALSE, <<>>)) =>
                    /\ r.outcome \in invoked
                    /\ r.view = api.cache[api.default_route]
            /\ (~first.found /\ api.default_route = Str(FALSE, <<>>)) =>
                    r.outcome = "NotFoundError"

----------------------------------------------------------------------------
\* C24: an append of a template that names a converter which is neither
\* built in nor among the converters given with it raises, and leaves the
\* result of every get as it was before the call.
C24_UnknownConverterFailsFast ==
    [][(/\ Len(log') = Len(log) + 1
        /\ CompileRaises(FixParts(Last(log').call.path.segs),
                         MergedConverters(Last(log').call.converters)))
       => /\ Last(log').raised
          /\ \A q \in ConverterGetPaths \cup Probes :
                RouterGet(routes', root_node', q) = GetNow(q)]_vars

----------------------------------------------------------------------------
\* C25 as stated: whenever a template in which a rest placeholder is followed
\* by further parts is appended, the call raises
C25_RestMustBeTail ==
    \A i \in 1..Len(log) :
        (\E k \in 1..Len(log[i].call.path.segs) :
            IsRestPart(log[i].call.path.segs[k]) /\ k < Len(log[i].call.path.segs))
        => log[i].raised

\* C25: an append of /a/{rest:*rest_string}/t is accepted without error, and
\* when it is the only template registered, under strict or no_slash, every
\* request /a/<remainder>/t resolves to the handler of the latest call with
\* rest bound to the whole remainder, and /a/t, which leaves the placeholder
\* nothing, resolves to None
C25_RestBeforeTail ==
    (/\ Len(log) >= 1 /\ \A i \in 1..Len(log) : log[i].call.path = TRestTail
     /\ default_strategy \in {"strict", "no_slash"}) =>
        /\ \A i \in 1..Len(log) : ~log[i].raised /\ log[i].ret = TRestTail
        /\ \A rem \in Remainders \cup {<<Lit(<<"t">>)>>, <<Lit(<<"x">>), Lit(<<"t">>)>>} :
                GetNow(Req(<<Lit(<<"a">>)>> \o rem \o <<Lit(<<"t">>)>>))
                    = _Matched(Last(log).call.handler, ("rest" :> StrValue(rem)))
        /\ ~GetNow(Req(<<Lit(<<"a">>), Lit(<<"t">>)>>)).found

\* C25, its case: the request /a/x/t/t, where the placeholder takes x/t
C25_Witness ==
    /\ Len(log) = 1 /\ log[1].call.path = TRestTail /\ ~log[1].raised
    /\ default_strategy = "strict"
    /\ GetNow(Req(<<Lit(<<"a">>), Lit(<<"x">>), Lit(<<"t">>), Lit(<<"t">>)>>)).params["rest"]
        = StrValue(<<Lit(<<"x">>), Lit(<<"t">>)>>)

----------------------------------------------------------------------------
\* C26: at every point of any interleaving of registrations and lookups on
\* the router of an Api, the memoized get returns for every request path what
\* an uncached traversal of the routes registered by then returns
C26_MemoTransparent ==
    \A p \in ApiGetPaths : CachedGet(p) = BlueprintGet(api.routes, p)

----------------------------------------------------------------------------
\* C27: when several registered templates match a request completely, the
\* request resolves to the template whose part at the first place where it
\* differs from each of the others is of the earlier kind (static before
\* dynamic before rest), with that template's latest handler and parameters,
\* in whatever order the templates were registered
C27_ChildKindPrecedence ==
    LET Kind(part) == IF IsRestPart(part) THEN 3 ELSE IF IsDynamicPart(part) THEN 2 ELSE 1
        Beats(t, u) ==
            \E k \in 1..Len(t.segs) :
                /\ k <= Len(u.segs)
                /\ \A m \in 1..(k - 1) : FixPart(t.segs[m]) = FixPart(u.segs[m])
                /\ Kind(t.segs[k]) < Kind(u.segs[k])
        Matching(q) == {i \in 1..Len(log) : ~log[i].raised /\ Instance(q, log[i].ret)}
    IN  \A q \in Probes \cup {Req(<<Lit(<<"a">>), Lit(foo), Lit(<<"x">>)>>)} :
            \A i \in Matching(q) :
                (\A j \in Matching(q) : log[j].ret = log[i].ret \/ Beats(log[i].ret, log[j].ret))
                => GetNow(q) = _Matched(LatestHandler(log[i].ret), Against(q, log[i].ret).named)

\* C27, its case: the root rest template registered first and
\* /a/{rest:*rest_string} after it; /a/foo takes the static child a of the
\* root, although the rest child registered earlier matches a/foo as well
C27_Witness ==
    /\ Len(log) = 2 /\ log[1].call.handler # log[2].call.handler
    /\ IsRestPart(log[1].ret.segs[1]) /\ log[2].ret = TRest
    /\ Instance(Req(<<Lit(<<"a">>), Lit(foo)>>), log[1].ret)
    /\ GetNow(Req(<<Lit(<<"a">>), Lit(foo)>>))
        = _Matched(log[2].call.handler, ("rest" :> StrValue(<<Lit(foo)>>)))

----------------------------------------------------------------------------
\* C28: a request found in the static table comes with an empty parameter
\* map, and a request found in the trie comes with exactly the parameters that
\* one registered template which matches it, in its returned form or its alias
\* form, binds: no name or value of a child that was tried and abandoned is in it
C28_ParamsExact ==
    \A q \in Probes \cup {PRoot, Req(<<Lit(<<"a">>), Lit(<<"x">>), Lit(<<"t">>)>>)} :
        LET Exact(r) ==
                r.found =>
                    IF StaticGet(routes, q).found THEN r.params = NoParams
                    ELSE \E i \in 1..Len(log) : \E f \in Forms(i) :
                            /\ HasPlaceholder(f) /\ ~log[i].raised
                            /\ Instance(q, f)
                            /\ r.params = Against(q, f).named
        IN  Exact(GetNow(q))

\* C28, its case: /{a:int}/x registered before /{b:str}/y; the request /5/y
\* enters the first child with a = 5, abandons it, and is found with b alone
C28_Witness ==
    /\ Len(log) = 2 /\ log[1].ret = TIntX /\ log[2].ret = TStrY
    /\ GetNow(Req(<<Lit(<<"5">>), Lit(<<"y">>)>>)).params
        = ("b" :> StrValue(<<Lit(<<"5">>)>>))

----------------------------------------------------------------------------
\* C29: every append that returns, whatever its path and strategy, leaves
\* every request that get found before the call found after it
C29_ReachabilityKept ==
    [][(Len(log') > Len(log) /\ ~Last(log').raised) =>
            \A q \in OverrideProbes \cup {PRoot, PFooBare} :
                GetNow(q).found => RouterGet(routes', root_node', q).found]_vars

\* C29, its case: /{n:int}/foo registered strict and /{n:int}/foo/ after it,
\* through the same children; /5/foo, found before the second call, is found
\* after it, and so is /5/foo/
C29_Witness ==
    /\ Len(log) = 2 /\ log[1].ret = TIntFoo /\ log[2].ret = TIntFooSlash
    /\ log[1].call.strategy = "strict" /\ log[2].call.strategy = "strict"
    /\ GetNow(Req(<<Lit(<<"5">>), Lit(foo)>>)).handler = log[1].call.handler
    /\ GetNow(Req(<<Lit(<<"5">>), Lit(foo), EmptySeg>>)).handler = log[2].call.handler

----------------------------------------------------------------------------
\* C30: whenever get(q) returns a redirect handler, get of the location that
\* redirect sends (q + "/" for a slash redirect, q[:-1] or "/" for a no_slash
\* redirect) returns a handler that is not a redirect
C30_RedirectOneHop ==
    \A q \in OverrideProbes \cup {PRoot} :
        LET Lands(r) ==
                (r.found /\ RedirectBase(r.handler)) =>
                    LET Real(t) == t.found /\ ~RedirectBase(t.handler)
                    IN  Real(GetNow(on_request(r.handler.name, q, <<>>).location))
        IN  Lands(GetNow(q))

\* C30, its case: /{n:int}/foo registered under slash and /foo under
\* no_slash; /5/foo is a redirect and /5/foo/ the view, /foo/ is a redirect
\* and /foo the view
C30_Witness ==
    /\ Len(log) = 2
    /\ log[1].call.path = TIntFoo /\ log[1].call.strategy = "slash"
    /\ log[2].call.path = PFoo /\ log[2].call.strategy = "no_slash"
    /\ GetNow(Req(<<Lit(<<"5">>), Lit(foo)>>)).handler = Redirect("slash", 1)
    /\ GetNow(Req(<<Lit(<<"5">>), Lit(foo), EmptySeg>>)).handler = log[1].call.handler
    /\ GetNow(PFooSlash).handler = Redirect("no_slash", 2)
    /\ GetNow(PFoo).handler = log[2].call.handler

====
